---- MODULE Spec2Model ----
(***************************************************************************)
(* A model of the composefs descriptor reader, kernel/lcfs-reader.c.       *)
(*                                                                         *)
(* The blob is a sequence of cells; address a is blob[a + 1].  Every       *)
(* scalar field of an on-disk record (an offset, a length, an index, a     *)
(* mode, a character) takes one cell, and size_t / lcfs_off_t arithmetic   *)
(* is done modulo W, so the record sizes and the address width are scaled  *)
(* down while the reader's arithmetic keeps its shape.                     *)
(*                                                                         *)
(* The file has two builds, chosen by #ifdef FUZZING: the in-memory reader *)
(* (lcfs_create_ctx_from_memory, the bounds-checked lcfs_get_vdata) and    *)
(* the kernel reader (lcfs_create_ctx, lcfs_get_vdata over kernel_read).   *)
(* The variable build says which one the state belongs to; bad is the set  *)
(* of addresses at which the kernel build's store fails a read.            *)
(***************************************************************************)
EXTENDS Integers, Sequences, FiniteSets, TLC

VARIABLES build, blob, bad, ctx, call, prev, iter

vars == <<build, blob, bad, ctx, call, prev, iter>>

(***************************************************************************)
(* Widths, record sizes and limits.                                        *)
(***************************************************************************)
W == 64
HeaderSize == 3
InodeSize == 5
InodeDataSize == 1
DentrySize == 3
XattrSize == 4
LCFS_VERSION == 1
NAME_MAX == 3
XATTR_NAME_MAX == 2
PATH_MAX == 4
S_IFMT == 48

EINVAL == -22
ENOMEM == -12
EIO == -5
E2BIG == -7
EFSCORRUPTED == -117
ENOENT == -2
ENOTSUPP == -524
PtrW == 64

(***************************************************************************)
(* Bounds of the model.                                                    *)
(***************************************************************************)
MaxEntries == 3
MaxXattrs == 2
MaxPayload == 3

Builds == {"FUZZING", "KERNEL"}

U(x) == x % W

check_add_overflow(a, b) == a + b >= W

Cells(a, n) == IF n = 0 THEN << >> ELSE SubSeq(blob, a + 1, a + n)

(***************************************************************************)
(* lcfs_get_vdata.  The result is what the caller sees: err (0, or the     *)
(* errno of ERR_PTR), and data, the cells copied into dest in order (also  *)
(* on a failure, when the kernel reader has copied some before failing).   *)
(***************************************************************************)
Res(err, data) == [err |-> err, data |-> data]

\* The copy taken from the start of the blob instead of after the header.
GetVdataMemoryNoHeader(off, len, dest) ==
  LET index == HeaderSize + off
      index_end == index + len
  IN IF check_add_overflow(HeaderSize, off) THEN Res(EFSCORRUPTED, << >>)
     ELSE IF index >= ctx.len THEN Res(EFSCORRUPTED, << >>)
     ELSE IF check_add_overflow(index, len) THEN Res(EFSCORRUPTED, << >>)
     ELSE IF index_end > ctx.len THEN Res(EFSCORRUPTED, << >>)
     ELSE IF ~dest THEN Res(0, << >>)
     ELSE Res(0, Cells(off, len))

\* FUZZING: lines 150-171
GetVdataMemory(off, len, dest) ==
  LET index == HeaderSize + off
      index_end == index + len
  IN IF check_add_overflow(HeaderSize, off) THEN Res(EFSCORRUPTED, << >>)
     ELSE IF index >= ctx.len THEN Res(EFSCORRUPTED, << >>)
     ELSE IF check_add_overflow(index, len) THEN Res(EFSCORRUPTED, << >>)
     ELSE IF index_end > ctx.len THEN Res(EFSCORRUPTED, << >>)
     ELSE IF ~dest THEN Res(0, << >>)
     ELSE Res(0, Cells(index, len))

\* kernel_read at pos: the cells the store hands over before it stops, and why
\* it stops.  A read at or past the end of the file returns 0 bytes; a read of a
\* bad sector returns an error.  The sizes of the partial reads do not change
\* what the loop of lines 180-191 ends with.
RECURSIVE KernelCopy(_, _, _)
KernelCopy(pos, len, copied) ==
  IF copied >= len THEN Res(0, Cells(pos, copied))
  ELSE IF pos + copied >= Len(blob) THEN Res(EINVAL, Cells(pos, copied))
  ELSE IF pos + copied \in bad THEN Res(EIO, Cells(pos, copied))
  ELSE KernelCopy(pos, len, copied + 1)

\* not FUZZING: lines 173-194
GetVdataKernel(off, len, dest) ==
  LET pos == U(off + HeaderSize)
  IN IF ~dest THEN Res(0, << >>)
     ELSE KernelCopy(pos, len, 0)

lcfs_get_vdata(off, len, dest) ==
  IF build = "FUZZING" THEN GetVdataMemory(off, len, dest)
  ELSE GetVdataKernel(off, len, dest)

(***************************************************************************)
(* Record accessors.  The records' fields, one cell each, in the order of  *)
(* their declaration:                                                      *)
(*   dentry      name.off, name.len, inode_index                           *)
(*   inode       inode_data_index, u.off, u.len, xattrs.off, xattrs.len    *)
(*               (u is the union of u.dir and u.file.payload)              *)
(*   inode data  st_mode                                                   *)
(*   xattr       key.off, key.len, value.off, value.len                    *)
(***************************************************************************)
lcfs_get_dentry(index) == lcfs_get_vdata(index, DentrySize, TRUE)

lcfs_get_ino_index(index) == lcfs_get_vdata(index, InodeSize, TRUE)

lcfs_get_root_index == U(U(ctx.len - HeaderSize) - InodeSize)

\* lcfs_dentry_inode: node->inode_index is the third cell of the dentry
lcfs_dentry_inode(dentry) == lcfs_get_ino_index(dentry[3])

\* lcfs_inode_data: ino->inode_data_index is the first cell of the inode
lcfs_inode_data(ino) == lcfs_get_vdata(ino[1], InodeDataSize, TRUE)

\* lcfs_dentry_ino (lcfs.h): the inode number of a dentry is its inode index
lcfs_dentry_ino(dentry) == dentry[3]

\* The C string that starts at the first cell of s: the cells before the first NUL.
RECURSIVE CStr(_)
CStr(s) == IF s = << >> \/ Head(s) = 0 THEN << >> ELSE <<Head(s)>> \o CStr(Tail(s))

\* strcmp: negative, zero or positive
RECURSIVE strcmp(_, _)
strcmp(a, b) ==
  IF a = << >> /\ b = << >> THEN 0
  ELSE IF a = << >> THEN -1
  ELSE IF b = << >> THEN 1
  ELSE IF Head(a) # Head(b) THEN (IF Head(a) < Head(b) THEN -1 ELSE 1)
  ELSE strcmp(Tail(a), Tail(b))

\* lcfs_c_string: err; str, the string returned; len, what *len is set to (0
\* when it is left alone); data, the cells copied into buf
StrRes(err, str, len, data) == [err |-> err, str |-> str, len |-> len, data |-> data]

lcfs_c_string(off, len, max) ==
  IF len = 0 THEN StrRes(0, << >>, 0, << >>)
  ELSE IF len > max THEN StrRes(EINVAL, << >>, 0, << >>)
  ELSE LET r == lcfs_get_vdata(off, len, TRUE)
       IN IF r.err # 0 THEN StrRes(r.err, << >>, 0, r.data)
          ELSE IF r.data[len] # 0 THEN StrRes(EFSCORRUPTED, << >>, 0, r.data)
          ELSE StrRes(0, CStr(r.data), len, r.data)

(***************************************************************************)
(* lcfs_lookup.                                                            *)
(***************************************************************************)
\* compare_names: cmp, the value returned to bsearch; err, what key->err is
\* set to (0 when it is left alone)
compare_names(name, b) ==
  LET dentry == lcfs_get_dentry(b)
  IN IF dentry.err # 0 THEN [cmp |-> 0, err |-> dentry.err]
     ELSE LET n == lcfs_c_string(dentry.data[1], dentry.data[2], NAME_MAX)
          IN IF n.err # 0 THEN [cmp |-> 0, err |-> n.err]
             ELSE [cmp |-> strcmp(name, n.str), err |-> 0]

\* bsearch over num records of DentrySize cells at address base: found, the
\* address of the record whose comparison returned 0 (0 is also NULL); err,
\* key->err after the search
RECURSIVE bsearch(_, _, _)
bsearch(name, base, num) ==
  IF num = 0 THEN [found |-> 0, err |-> 0]
  ELSE LET pivot == U(base + (num \div 2) * DentrySize)
           c == compare_names(name, pivot)
       IN IF c.cmp = 0 THEN [found |-> pivot, err |-> c.err]
          ELSE IF c.cmp > 0
               THEN bsearch(name, U(pivot + DentrySize), (num - 1) \div 2)
               ELSE bsearch(name, base, num \div 2)

\* ret, the value returned; index, what *index is set to when it is set (set)
lcfs_lookup(dir_off, dir_len, name) ==
  LET check == lcfs_get_vdata(dir_off, dir_len, FALSE)
      n_entries == dir_len \div DentrySize
      s == bsearch(name, U(dir_off), n_entries)
  IN IF check.err # 0
     THEN [ret |-> check.err, set |-> FALSE, index |-> 0, kerr |-> 0]
     ELSE IF s.found = 0 \/ s.err # 0
          THEN [ret |-> 0, set |-> FALSE, index |-> 0, kerr |-> s.err]
          ELSE [ret |-> 1, set |-> TRUE, index |-> s.found, kerr |-> 0]

(***************************************************************************)
(* lcfs_iterate_dir, one loop iteration at a time: the visitor is the      *)
(* caller's code and decides after each entry whether the loop goes on.    *)
(***************************************************************************)
\* The length of the table taken for its number of entries.
IterEntriesInBytes(dir_len) == dir_len

\* Line 383
IterEntries(dir_len) == dir_len \div DentrySize

\* st_mode & S_IFMT: S_IFMT is the top bits of a cell
ModeType(mode) == (mode \div (W - S_IFMT)) * (W - S_IFMT)

\* Lines 397-418 for entry i: err, or the visitor's arguments
IterBody(dir_off, i) ==
  LET nd == U(i * DentrySize)
      dentry == lcfs_get_dentry(U(dir_off + nd))
  IN IF dentry.err # 0 THEN [err |-> dentry.err, visit |-> << >>]
     ELSE LET name == lcfs_c_string(dentry.data[1], dentry.data[2], NAME_MAX)
          IN IF name.err # 0 THEN [err |-> name.err, visit |-> << >>]
             ELSE LET ino == lcfs_dentry_inode(dentry.data)
                  IN IF ino.err # 0 THEN [err |-> ino.err, visit |-> << >>]
                     ELSE LET ino_data == lcfs_inode_data(ino.data)
                          IN IF ino_data.err # 0
                             THEN [err |-> ino_data.err, visit |-> << >>]
                             ELSE [err |-> 0,
                                   visit |-> <<name.str, name.len,
                                               lcfs_dentry_ino(dentry.data),
                                               ModeType(ino_data.data[1])>>]

(***************************************************************************)
(* Extended attributes.  A result is ret, the value returned; out, the    *)
(* cells written to the caller's buffer, in order from its start; over,    *)
(* whether some copy wrote more cells than its destination holds.          *)
(***************************************************************************)
XRes(ret, out, over) == [ret |-> ret, out |-> out, over |-> over]

\* The test of line 300 without the cell of the NUL.
ListTooBigNoNul(size, copied, key_len) == U(size - copied) < U(key_len)

\* Line 300: size - copied < h->key.len + 1
ListTooBig(size, copied, key_len) == U(size - copied) < U(key_len + 1)

\* The loop of lines 277-307 from entry i on
RECURSIVE ListLoop(_, _, _, _, _, _)
ListLoop(xoff, n_xattrs, i, copied, out, size) ==
  IF i >= n_xattrs THEN XRes(copied, out, FALSE)
  ELSE LET h == lcfs_get_vdata(U(xoff + U(i * XattrSize)), XattrSize, TRUE)
       IN IF h.err # 0 THEN XRes(h.err, out, FALSE)
          ELSE IF h.data[2] > XATTR_NAME_MAX THEN XRes(EFSCORRUPTED, out, FALSE)
          ELSE LET xattr == lcfs_get_vdata(h.data[1], h.data[2], TRUE)
               IN IF xattr.err # 0
                  THEN XRes(xattr.err, out, Len(xattr.data) > XATTR_NAME_MAX)
                  ELSE IF size # 0 /\ ListTooBig(size, copied, h.data[2])
                       THEN XRes(E2BIG, out, FALSE)
                       ELSE ListLoop(xoff, n_xattrs, i + 1, copied + h.data[2] + 1,
                                     IF size # 0 THEN out \o xattr.data \o <<0>> ELSE out,
                                     size)

\* Lines 261-309
lcfs_list_xattrs(xoff, xlen, size) ==
  IF xlen = 0 THEN XRes(0, << >>, FALSE)
  ELSE LET xattrs == lcfs_get_vdata(xoff, xlen, FALSE)
       IN IF xattrs.err # 0 THEN XRes(xattrs.err, << >>, FALSE)
          ELSE LET r == ListLoop(xoff, xlen \div XattrSize, 0, 0, << >>, size)
               IN [r EXCEPT !.over = @ \/ (size # 0 /\ Len(r.out) > size)]

\* The loop of lines 331-369 from entry i on; name is the query, a C string
RECURSIVE GetLoop(_, _, _, _, _)
GetLoop(xoff, n_xattrs, i, name, size) ==
  IF i >= n_xattrs THEN XRes(0, << >>, FALSE)
  ELSE LET h == lcfs_get_vdata(U(xoff + U(i * XattrSize)), XattrSize, TRUE)
           copied == 0
       IN IF h.err # 0 THEN XRes(h.err, << >>, FALSE)
          ELSE IF h.data[2] # Len(name) THEN GetLoop(xoff, n_xattrs, i + 1, name, size)
          ELSE LET xattr == lcfs_get_vdata(h.data[1], h.data[2], TRUE)
               IN IF xattr.err # 0
                  THEN XRes(xattr.err, << >>, Len(xattr.data) > XATTR_NAME_MAX)
                  ELSE IF xattr.data # name
                       THEN GetLoop(xoff, n_xattrs, i + 1, name, size)
                       ELSE IF size = 0 THEN XRes(h.data[4], << >>, FALSE)
                       ELSE IF U(size - copied) < U(h.data[4] + 1)
                            THEN XRes(E2BIG, << >>, FALSE)
                       ELSE LET v == lcfs_get_vdata(h.data[3], h.data[4], TRUE)
                            IN XRes(IF v.err # 0 THEN v.err ELSE h.data[2],
                                    v.data, Len(v.data) > size)

\* Lines 311-371
lcfs_get_xattr(xoff, xlen, name, size) ==
  IF xlen = 0 THEN XRes(0, << >>, FALSE)
  ELSE IF Len(name) > XATTR_NAME_MAX THEN XRes(0, << >>, FALSE)
  ELSE LET xattrs == lcfs_get_vdata(xoff, xlen, FALSE)
       IN IF xattrs.err # 0 THEN XRes(xattrs.err, << >>, FALSE)
          ELSE GetLoop(xoff, xlen \div XattrSize, 0, name, size)

\* lcfs_get_payload, lines 482-494: lcfs_c_string never returns NULL, so its
\* error or string is returned as it is.  ret is 0 with the string in out.
lcfs_get_payload(poff, plen) ==
  IF plen = 0 THEN XRes(EINVAL, << >>, FALSE)
  ELSE LET real_path == lcfs_c_string(poff, plen, PATH_MAX)
       IN XRes(real_path.err, real_path.str, Len(real_path.data) > PATH_MAX)

(***************************************************************************)
(* Context creation.  oom: kzalloc returns NULL.  openFails: filp_open     *)
(* returns an error.                                                       *)
(***************************************************************************)
NoCtx == [open |-> FALSE, err |-> 0, header |-> <<0, 0, 0>>, len |-> 0]

CtxErr(e) == [NoCtx EXCEPT !.err = e]

\* FUZZING: lines 51-85
lcfs_create_ctx_from_memory(size, oom) ==
  IF size < HeaderSize + InodeSize THEN CtxErr(EINVAL)
  ELSE IF blob[1] # LCFS_VERSION THEN CtxErr(EINVAL)
  ELSE IF blob[2] # InodeSize THEN CtxErr(EINVAL)
  ELSE IF blob[3] # InodeDataSize THEN CtxErr(EINVAL)
  ELSE IF oom THEN CtxErr(ENOMEM)
  ELSE [open |-> TRUE, err |-> 0, header |-> Cells(0, HeaderSize), len |-> size]

\* not FUZZING: lines 89-119.  The width test of line 95 compares two widths
\* that are both W here.  kzalloc leaves ctx->header zeroed.
lcfs_create_ctx(i_size, openFails, oom) ==
  IF PtrW # W THEN CtxErr(ENOTSUPP)
  ELSE IF openFails THEN CtxErr(ENOENT)
  ELSE IF i_size <= 0 \/ i_size > W - 1 THEN CtxErr(EINVAL)
  ELSE IF oom THEN CtxErr(ENOMEM)
  ELSE [open |-> TRUE, err |-> 0, header |-> <<0, 0, 0>>, len |-> i_size]

(***************************************************************************)
(* The last call and what it returned.                                     *)
(***************************************************************************)
NoCall == [op |-> "none", off |-> 0, len |-> 0, dest |-> FALSE, name |-> << >>,
           size |-> 0, ret |-> 0, out |-> << >>, over |-> FALSE, index |-> 0,
           kerr |-> 0]

IdleIter == [pc |-> "idle", first |-> 0, off |-> 0, len |-> 0, i |-> 0,
             entries |-> 0, visits |-> << >>, ret |-> 0, stopped |-> FALSE,
             failed |-> FALSE]

CreateCtx ==
  /\ ~ctx.open
  /\ ctx.err = 0
  /\ \E oom \in BOOLEAN, openFails \in BOOLEAN :
       ctx' = IF build = "FUZZING"
              THEN lcfs_create_ctx_from_memory(Len(blob), oom)
              ELSE lcfs_create_ctx(Len(blob), openFails, oom)
  /\ UNCHANGED <<build, blob, bad, call, prev, iter>>

(***************************************************************************)
(* The region reader called directly, with any descriptor.                 *)
(***************************************************************************)
OffVals == (0 .. HeaderSize + InodeSize + MaxPayload + 1) \cup (W - HeaderSize - 2 .. W - 1)

\* The caller takes the result of the call; the next call starts from there.
Return ==
  /\ call.op # "none"
  /\ call' = NoCall
  /\ prev' = IF call.op = "list_xattrs" THEN call ELSE NoCall
  /\ UNCHANGED <<build, blob, bad, ctx, iter>>

Ready == ctx.open /\ call.op = "none" /\ iter.pc = "idle"

GetVdata ==
  /\ Ready
  /\ \E off \in OffVals, len \in OffVals, dest \in BOOLEAN :
       LET r == lcfs_get_vdata(off, len, dest)
       IN call' = [NoCall EXCEPT !.op = "get_vdata", !.off = off, !.len = len,
                                 !.dest = dest, !.ret = r.err, !.out = r.data]
  /\ UNCHANGED <<build, blob, bad, ctx, prev, iter>>

PayloadCell(a) == (a * 5 + 7) % W

GoodHeader == <<LCFS_VERSION, InodeSize, InodeDataSize>>

Headers == {GoodHeader,
            <<LCFS_VERSION + 1, InodeSize, InodeDataSize>>,
            <<LCFS_VERSION, InodeSize - 1, InodeDataSize>>,
            <<LCFS_VERSION, InodeSize, InodeDataSize + 1>>}

VdataBlobs ==
  {h \o [a \in 1 .. n |-> PayloadCell(a)] :
     h \in Headers, n \in InodeSize - 1 .. InodeSize + MaxPayload}

InitVdata ==
  /\ build \in Builds
  /\ blob \in VdataBlobs
  /\ bad \in {{}} \cup (IF build = "KERNEL" THEN {{a} : a \in 0 .. Len(blob) - 1} ELSE {})
  /\ ctx = NoCtx
  /\ call = NoCall
  /\ prev = NoCall
  /\ iter = IdleIter

NextVdata == CreateCtx \/ GetVdata \/ Return

SpecVdata == InitVdata /\ [][NextVdata]_vars

(***************************************************************************)
(* Directory operations on the root directory: the caller fetches the root *)
(* inode with lcfs_get_ino_index(lcfs_get_root_index) and hands it over.   *)
(***************************************************************************)
RootInode == lcfs_get_ino_index(lcfs_get_root_index)

NameOf(i) == IF i % 2 = 0 THEN <<i \div 2 + 1>> ELSE <<i \div 2 + 1, 1>>

LookupNames == {NameOf(i) : i \in 0 .. MaxEntries} \cup {<< >>, <<1, 2>>}

Lookup ==
  /\ Ready
  /\ RootInode.err = 0
  /\ \E name \in LookupNames :
       LET dir == RootInode.data
           r == lcfs_lookup(dir[2], dir[3], name)
       IN call' = [NoCall EXCEPT !.op = "lookup", !.off = dir[2], !.len = dir[3],
                                 !.name = name, !.ret = r.ret, !.dest = r.set,
                                 !.index = r.index, !.kerr = r.kerr]
  /\ UNCHANGED <<build, blob, bad, ctx, prev, iter>>

\* Lines 378-385: the probe, the entry count, i = first
IterStart ==
  /\ Ready
  /\ iter.pc = "idle"
  /\ RootInode.err = 0
  /\ \E first \in -1 .. MaxEntries + 1 :
       LET dir == RootInode.data
           check == lcfs_get_vdata(dir[2], dir[3], FALSE)
       IN iter' = IF check.err # 0
                  THEN [IdleIter EXCEPT !.pc = "done", !.first = first, !.off = dir[2],
                                        !.len = dir[3], !.ret = check.err,
                                        !.failed = TRUE]
                  ELSE [IdleIter EXCEPT !.pc = "loop", !.first = first, !.off = dir[2],
                                        !.len = dir[3], !.i = U(first),
                                        !.entries = IterEntries(dir[3])]
  /\ UNCHANGED <<build, blob, bad, ctx, call, prev>>

\* The loop going on to the next entry after the visitor has returned stop.
IterStepIgnoresStop ==
  /\ iter.pc = "loop"
  /\ iter.i < iter.entries
  /\ \E cont \in BOOLEAN :
       LET b == IterBody(iter.off, iter.i)
       IN iter' = IF b.err # 0
                  THEN [iter EXCEPT !.pc = "done", !.ret = b.err, !.failed = TRUE]
                  ELSE [iter EXCEPT !.i = @ + 1, !.visits = Append(@, b.visit),
                                    !.stopped = ~cont]
  /\ UNCHANGED <<build, blob, bad, ctx, call, prev>>

\* One iteration of the loop of lines 385-420; cont is what the visitor returns.
IterStep ==
  /\ iter.pc = "loop"
  /\ iter.i < iter.entries
  /\ \E cont \in BOOLEAN :
       LET b == IterBody(iter.off, iter.i)
       IN iter' = IF b.err # 0
                  THEN [iter EXCEPT !.pc = "done", !.ret = b.err, !.failed = TRUE]
                  ELSE IF ~cont
                       THEN [iter EXCEPT !.pc = "done", !.ret = 0, !.stopped = TRUE,
                                         !.visits = Append(@, b.visit)]
                       ELSE [iter EXCEPT !.i = @ + 1, !.visits = Append(@, b.visit)]
  /\ UNCHANGED <<build, blob, bad, ctx, call, prev>>

\* i < entries is false: line 421
IterEnd ==
  /\ iter.pc = "loop"
  /\ iter.i >= iter.entries
  /\ iter' = [iter EXCEPT !.pc = "done", !.ret = 0]
  /\ UNCHANGED <<build, blob, bad, ctx, call, prev>>

IterReturn ==
  /\ iter.pc = "done"
  /\ iter' = IdleIter
  /\ UNCHANGED <<build, blob, bad, ctx, call, prev>>

(***************************************************************************)
(* Directory images: what the writer lays out for a directory of n         *)
(* entries named NameOf(0) < NameOf(1) < ..., with the entry table first   *)
(* in the payload (tableFirst) or after the names; then the two inode-data *)
(* records, the inode of a regular file and, last, the root inode.  Even   *)
(* entries name the file, odd entries the root directory itself.           *)
(***************************************************************************)
\* The modes of a regular file and of a directory: a file type in the bits of
\* S_IFMT, permissions below them
RegMode == 2 * (W - S_IFMT) + 4
DirMode == (W - S_IFMT) + 5

RECURSIVE NamesLen(_)
NamesLen(i) == IF i = 0 THEN 0 ELSE NamesLen(i - 1) + Len(NameOf(i - 1)) + 1

RECURSIVE NameCells(_)
NameCells(n) == IF n = 0 THEN << >> ELSE NameCells(n - 1) \o NameOf(n - 1) \o <<0>>

DirImage(n, tableFirst) ==
  LET tableOff == IF tableFirst THEN 0 ELSE NamesLen(n)
      namesOff == IF tableFirst THEN n * DentrySize ELSE 0
      dataOff == n * DentrySize + NamesLen(n)
      fileIdx == dataOff + 2 * InodeDataSize
      rootIdx == fileIdx + InodeSize
      RECURSIVE Table(_)
      Table(k) ==
        IF k = 0 THEN << >>
        ELSE Table(k - 1) \o <<namesOff + NamesLen(k - 1), Len(NameOf(k - 1)) + 1,
                                IF (k - 1) % 2 = 0 THEN fileIdx ELSE rootIdx>>
      records == <<RegMode, DirMode>>
                   \o <<dataOff, 0, 0, 0, 0>>
                   \o <<dataOff + InodeDataSize, tableOff, n * DentrySize, 0, 0>>
  IN GoodHeader
       \o (IF tableFirst THEN Table(n) \o NameCells(n) ELSE NameCells(n) \o Table(n))
       \o records

DirBases == {DirImage(n, t) : n \in 0 .. MaxEntries, t \in BOOLEAN}

\* One cell of a blob overwritten with a hostile value: every offset and length
\* up to one past the payload's length, and the two largest values of the width.
CorruptVals(b) == (0 .. Len(b) - HeaderSize + 1) \cup {W - 2, W - 1}

Corrupted(bases) ==
  UNION {{[b EXCEPT ![a] = v] : a \in 1 .. Len(b), v \in CorruptVals(b)} : b \in bases}

InitDir ==
  /\ build \in Builds
  /\ blob \in DirBases \cup Corrupted(DirBases)
  /\ bad \in {{}} \cup (IF build = "KERNEL" /\ blob \in DirBases
                      THEN {{a} : a \in 0 .. Len(blob) - 1} ELSE {})
  /\ ctx = NoCtx
  /\ call = NoCall
  /\ prev = NoCall
  /\ iter = IdleIter

NextDir == CreateCtx \/ Lookup \/ Return \/ IterStart \/ IterStep \/ IterEnd \/ IterReturn

SpecDir == InitDir /\ [][NextDir]_vars

(***************************************************************************)
(* Extended-attribute and payload calls on the root inode.                 *)
(***************************************************************************)
XKey(i) == IF i % 2 = 0 THEN <<5 + i \div 2>> ELSE <<5 + i \div 2, 6>>

XVal(i) == [j \in 1 .. 2 - (i % 2) |-> 10 + 2 * i + j]

RECURSIVE XStrings(_)
XStrings(n) == IF n = 0 THEN << >> ELSE XStrings(n - 1) \o XKey(n - 1) \o XVal(n - 1)

ListSizes == 0 .. Len(XStrings(MaxXattrs)) + 1

GetSizes == 0 .. 4

QueryNames == {XKey(i) : i \in 0 .. MaxXattrs - 1} \cup {<< >>, <<6>>, <<5, 6, 7>>}

ListXattrs ==
  /\ Ready
  /\ RootInode.err = 0
  /\ \E size \in ListSizes :
       LET ino == RootInode.data
           r == lcfs_list_xattrs(ino[4], ino[5], size)
       IN call' = [NoCall EXCEPT !.op = "list_xattrs", !.off = ino[4], !.len = ino[5],
                                 !.size = size, !.ret = r.ret, !.out = r.out,
                                 !.over = r.over]
  /\ UNCHANGED <<build, blob, bad, ctx, prev, iter>>

\* A copy past the end of its destination is undefined behaviour: the value
\* the call then returns is any of these.
AfterOverrun(ret) == {ret, 0, EIO}

GetXattr ==
  /\ Ready
  /\ RootInode.err = 0
  /\ \E name \in QueryNames, size \in GetSizes :
       LET ino == RootInode.data
           r == lcfs_get_xattr(ino[4], ino[5], name, size)
       IN \E ret \in (IF r.over THEN AfterOverrun(r.ret) ELSE {r.ret}) :
            call' = [NoCall EXCEPT !.op = "get_xattr", !.off = ino[4], !.len = ino[5],
                                   !.name = name, !.size = size, !.ret = ret,
                                   !.out = r.out, !.over = r.over]
  /\ prev' = NoCall
  /\ UNCHANGED <<build, blob, bad, ctx, iter>>

GetPayload ==
  /\ Ready
  /\ RootInode.err = 0
  /\ LET ino == RootInode.data
         r == lcfs_get_payload(ino[2], ino[3])
     IN call' = [NoCall EXCEPT !.op = "get_payload", !.off = ino[2], !.len = ino[3],
                               !.ret = r.ret, !.out = r.out, !.over = r.over]
  /\ prev' = NoCall
  /\ UNCHANGED <<build, blob, bad, ctx, iter>>

(***************************************************************************)
(* Xattr images: the keys and values of n attributes, the payload path,    *)
(* the attribute table, one inode-data record and the root inode.          *)
(***************************************************************************)
XattrImage(n) ==
  LET pathOff == Len(XStrings(n))
      tableOff == pathOff + 2
      dataOff == tableOff + n * XattrSize
      RECURSIVE Table(_)
      Table(k) ==
        IF k = 0 THEN << >>
        ELSE Table(k - 1) \o <<Len(XStrings(k - 1)), Len(XKey(k - 1)),
                                Len(XStrings(k - 1)) + Len(XKey(k - 1)), Len(XVal(k - 1))>>
  IN GoodHeader \o XStrings(n) \o <<9, 0>> \o Table(n) \o <<RegMode>>
       \o <<dataOff, pathOff, 2, tableOff, n * XattrSize>>

XattrBases == {XattrImage(n) : n \in 0 .. MaxXattrs}

InitXattr ==
  /\ build \in Builds
  /\ blob \in XattrBases \cup Corrupted(XattrBases)
  /\ bad \in {{}} \cup (IF build = "KERNEL" /\ blob \in XattrBases
                      THEN {{a} : a \in 0 .. Len(blob) - 1} ELSE {})
  /\ ctx = NoCtx
  /\ call = NoCall
  /\ prev = NoCall
  /\ iter = IdleIter

NextXattr == CreateCtx \/ ListXattrs \/ GetXattr \/ GetPayload \/ Return

SpecXattr == InitXattr /\ [][NextXattr]_vars

(***************************************************************************)
(* Region reader: the claims.                                              *)
(***************************************************************************)
\* header_size + d.offset + d.length <= blob_length, in unbounded integers; the
\* blob is shorter than W, so a descriptor that satisfies it overflows nowhere.
InBounds(off, len) == HeaderSize + off + len <= Len(blob)

StoreFails(off, len) ==
  \E a \in bad : HeaderSize + off <= a /\ a < HeaderSize + off + len

IsVdataCall == call.op = "get_vdata"

\* C1: a descriptor that does not fit the blob (or whose sums overflow) fails
\* with EFSCORRUPTED, with or without a destination, and no cell is read from
\* the store or written to the destination.
C1_OutOfBoundsRejected ==
  (IsVdataCall /\ ~InBounds(call.off, call.len))
    => (call.ret = EFSCORRUPTED /\ call.out = << >>)

\* C2 as claimed: every descriptor with header_size + offset + length <=
\* blob_length, read with a destination, succeeds and the destination holds
\* exactly the blob's cells of that region.
C2_InBoundsReadSucceeds ==
  (IsVdataCall /\ call.dest /\ InBounds(call.off, call.len))
    => (call.ret = 0 /\ call.out = Cells(HeaderSize + call.off, call.len))

\* C2 as amended: the same for a descriptor that also starts strictly inside
\* the blob, read from a store that reports no read error in the region; and
\* no read that succeeds hands over fewer cells than the descriptor's length.
C2_ReadExact ==
  /\ (IsVdataCall /\ call.dest /\ InBounds(call.off, call.len)
        /\ HeaderSize + call.off < Len(blob) /\ ~StoreFails(call.off, call.len))
       => (call.ret = 0 /\ call.out = Cells(HeaderSize + call.off, call.len))
  /\ (IsVdataCall /\ call.dest /\ call.ret = 0) => Len(call.out) = call.len

\* A read of a region of two cells that ends exactly at the end of the blob.
C2_Witness ==
  /\ IsVdataCall /\ call.dest /\ call.len = 2
  /\ HeaderSize + call.off + call.len = Len(blob)
  /\ call.ret = 0 /\ call.out = Cells(HeaderSize + call.off, 2)

HeaderValid ==
  /\ Len(blob) >= HeaderSize
  /\ blob[1] = LCFS_VERSION
  /\ blob[2] = InodeSize
  /\ blob[3] = InodeDataSize

\* C8: a context exists only for a blob whose header has the expected version,
\* inode size and inode-data size, whichever entry point created it.
C8_ContextImpliesValidHeader == ctx.open => HeaderValid

(***************************************************************************)
(* Directories: what the blob holds, read cell by cell.                    *)
(***************************************************************************)
\* The cell at payload offset off
P(off) == blob[HeaderSize + off + 1]

\* A region the reader accepts (both ends inside the blob)
ValidRegion(off, len) ==
  HeaderSize + off < Len(blob) /\ HeaderSize + off + len <= Len(blob)

StoreOk == bad = {}

Count(len) == len \div DentrySize

EntryNameOff(off, i) == P(off + i * DentrySize)
EntryNameLen(off, i) == P(off + i * DentrySize + 1)
EntryIno(off, i) == P(off + i * DentrySize + 2)

ValidName(noff, nlen) ==
  nlen = 0 \/ (nlen <= NAME_MAX /\ ValidRegion(noff, nlen) /\ P(noff + nlen - 1) = 0)

EntryName(off, i) ==
  IF EntryNameLen(off, i) = 0 THEN << >>
  ELSE CStr(Cells(HeaderSize + EntryNameOff(off, i), EntryNameLen(off, i)))

ValidNames(off, len) ==
  /\ ValidRegion(off, len)
  /\ \A i \in 0 .. Count(len) - 1 : ValidName(EntryNameOff(off, i), EntryNameLen(off, i))

ValidDir(off, len) ==
  /\ ValidNames(off, len)
  /\ \A i \in 0 .. Count(len) - 1 :
       /\ ValidRegion(EntryIno(off, i), InodeSize)
       /\ ValidRegion(P(EntryIno(off, i)), InodeDataSize)

\* Valid, non-empty names in strictly ascending order
SortedDir(off, len) ==
  /\ ValidNames(off, len)
  /\ \A i \in 0 .. Count(len) - 1 : EntryNameLen(off, i) >= 2
  /\ \A i, j \in 0 .. Count(len) - 1 :
       i < j => strcmp(EntryName(off, i), EntryName(off, j)) < 0

ExpectedVisit(off, i) ==
  LET mode == P(P(EntryIno(off, i)))
  IN <<EntryName(off, i), EntryNameLen(off, i), EntryIno(off, i),
       mode - (mode % (W - S_IFMT))>>

ExpectedVisits(off, len, k) ==
  [j \in 1 .. (IF k < Count(len) THEN Count(len) - k ELSE 0) |->
     ExpectedVisit(off, k + j - 1)]

IsLookup == call.op = "lookup"

\* C3: a lookup in which a comparison failed returns that error, not 0.
C3_LookupSurfacesError == (IsLookup /\ call.kerr # 0) => call.ret = call.kerr

\* C4: in a table of valid, distinct names sorted ascending, the lookup of the
\* name of entry i returns 1 and sets the result to dir.off + i * DentrySize;
\* the lookup of a name that is not in the table returns 0.
C4_LookupRoundTrip ==
  (IsLookup /\ SortedDir(call.off, call.len) /\ StoreOk)
    => /\ \A i \in 0 .. Count(call.len) - 1 :
            call.name = EntryName(call.off, i)
              => (call.ret = 1 /\ call.dest /\ call.index = call.off + i * DentrySize)
       /\ (\A i \in 0 .. Count(call.len) - 1 : call.name # EntryName(call.off, i))
            => call.ret = 0

\* The same round trip for every entry but the one at payload offset 0, whose
\* address bsearch returns as NULL.
LookupRoundTripAwayFromNull ==
  (IsLookup /\ SortedDir(call.off, call.len) /\ StoreOk)
    => /\ \A i \in 0 .. Count(call.len) - 1 :
            (call.name = EntryName(call.off, i) /\ call.off + i * DentrySize # 0)
              => (call.ret = 1 /\ call.dest /\ call.index = call.off + i * DentrySize)
       /\ (\A i \in 0 .. Count(call.len) - 1 : call.name # EntryName(call.off, i))
            => call.ret = 0

\* C5: over a valid directory read from a store that reports no error, with a
\* visitor that has not stopped the loop, the visitor has been invoked for the
\* entries first, first + 1, ... in table order, each with the entry's name,
\* name length, child index and file type; when the call is done it has been
\* invoked for every entry from first to the last and the call returns 0.
C5_IterateCoversSuffix ==
  (iter.pc \in {"loop", "done"} /\ iter.first >= 0 /\ ~iter.stopped /\ StoreOk
     /\ ValidDir(iter.off, iter.len))
    => LET all == ExpectedVisits(iter.off, iter.len, iter.first)
       IN /\ ~iter.failed
          /\ iter.pc = "loop" =>
               (Len(iter.visits) <= Len(all)
                  /\ iter.visits = SubSeq(all, 1, Len(iter.visits)))
          /\ iter.pc = "done" => (iter.ret = 0 /\ iter.visits = all)

\* An enumeration from entry 1 of a valid directory of at least three entries
\* that has run to its end.
C5_Witness ==
  /\ iter.pc = "done" /\ iter.first = 1 /\ ~iter.stopped /\ StoreOk
  /\ ValidDir(iter.off, iter.len) /\ Count(iter.len) >= 3
  /\ Len(iter.visits) = Count(iter.len) - 1
  /\ iter.ret = 0

\* The error of the first step of lines 399-415 that fails for entry i (0: none)
StepError(off, i) ==
  LET dentry == lcfs_get_dentry(U(off + U(i * DentrySize)))
      name == lcfs_c_string(dentry.data[1], dentry.data[2], NAME_MAX)
      ino == lcfs_get_ino_index(dentry.data[3])
      ino_data == lcfs_get_vdata(ino.data[1], InodeDataSize, TRUE)
  IN IF dentry.err # 0 THEN dentry.err
     ELSE IF name.err # 0 THEN name.err
     ELSE IF ino.err # 0 THEN ino.err
     ELSE ino_data.err

IterOutcome ==
  /\ iter.stopped =>
       (iter.pc = "done" /\ iter.ret = 0 /\ ~iter.failed
          /\ Len(iter.visits) = iter.i - U(iter.first) + 1)
  /\ (iter.failed /\ iter.entries > 0) =>
       (iter.pc = "done" /\ ~iter.stopped
          /\ iter.ret = StepError(iter.off, iter.i) /\ iter.ret < 0
          /\ Len(iter.visits) = iter.i - U(iter.first))
  /\ (iter.failed /\ iter.entries = 0) =>
       (iter.pc = "done" /\ iter.visits = << >>
          /\ iter.ret = lcfs_get_vdata(iter.off, iter.len, FALSE).err /\ iter.ret < 0)

\* C9: once the visitor has returned stop, or a step has failed, the visitor is
\* not invoked again in that call; after a stop the call returns 0, after a
\* failure it returns the failure's error, and the visitor has not been invoked
\* for the entry that failed.
C9_IterateEarlyExit ==
  /\ []IterOutcome
  /\ [][(iter.stopped \/ iter.failed) => (iter'.visits = iter.visits \/ iter' = IdleIter)]_vars

\* The visitor has stopped the loop at an entry that is not the last.
C9_Witness ==
  /\ iter.stopped /\ iter.pc = "done"
  /\ Len(iter.visits) >= 2
  /\ iter.i + 1 < iter.entries

(***************************************************************************)
(* Extended attributes: what the blob holds, read cell by cell.            *)
(***************************************************************************)
XCount(len) == len \div XattrSize

KeyOff(off, i) == P(off + i * XattrSize)
KeyLen(off, i) == P(off + i * XattrSize + 1)
ValOff(off, i) == P(off + i * XattrSize + 2)
ValLen(off, i) == P(off + i * XattrSize + 3)

\* An empty table, or a table inside the blob whose names fit the name ceiling
\* and lie inside the blob
ValidXattrs(off, len) ==
  \/ len = 0
  \/ /\ ValidRegion(off, len)
     /\ \A i \in 0 .. XCount(len) - 1 :
          KeyLen(off, i) <= XATTR_NAME_MAX /\ ValidRegion(KeyOff(off, i), KeyLen(off, i))

Key(off, i) == Cells(HeaderSize + KeyOff(off, i), KeyLen(off, i))

RECURSIVE NamesTotal(_, _)
NamesTotal(off, n) ==
  IF n = 0 THEN 0 ELSE NamesTotal(off, n - 1) + KeyLen(off, n - 1) + 1

RECURSIVE NamesList(_, _)
NamesList(off, n) ==
  IF n = 0 THEN << >> ELSE NamesList(off, n - 1) \o Key(off, n - 1) \o <<0>>

IsList == call.op = "list_xattrs"

ListRepeats ==
  (prev.op = "list_xattrs" /\ prev.size = call.size)
    => (prev.ret = call.ret /\ prev.out = call.out)

\* C6 as claimed: with N the sum of name_length + 1 over a valid table, a call
\* with capacity 0 returns N, a call with capacity N returns N and writes the N
\* cells of the names, each followed by a NUL, a call with capacity N - 1 fails
\* with E2BIG, and a repeated call gives the same result.
C6_ListSizeConsistent ==
  (IsList /\ ValidXattrs(call.off, call.len) /\ StoreOk)
    => LET N == NamesTotal(call.off, XCount(call.len))
       IN /\ call.size = 0 => (call.ret = N /\ call.out = << >>)
          /\ call.size = N =>
               (call.ret = N /\ call.out = NamesList(call.off, XCount(call.len)))
          /\ call.size = N - 1 => call.ret = E2BIG
          /\ ListRepeats

\* C6 as amended: the same, the failure with E2BIG being that of a capacity
\* N - 1 that is not 0 (N >= 2); a capacity of 0 is the sizing call, also when
\* N = 1.
C6_ListSizeConsistentNonZero ==
  (IsList /\ ValidXattrs(call.off, call.len) /\ StoreOk)
    => LET N == NamesTotal(call.off, XCount(call.len))
       IN /\ call.size = 0 => (call.ret = N /\ call.out = << >>)
          /\ (call.size = N /\ N > 0) =>
               (call.ret = N /\ call.out = NamesList(call.off, XCount(call.len))
                  /\ Len(call.out) = N /\ ~call.over)
          /\ (call.size = N - 1 /\ N >= 2) => call.ret = E2BIG
          /\ ListRepeats

\* The sizing call has returned N = 5 and the call with capacity 5 has filled
\* the buffer with the two names.
C6_Witness ==
  /\ IsList /\ ValidXattrs(call.off, call.len) /\ StoreOk
  /\ XCount(call.len) = 2
  /\ prev.op = "list_xattrs" /\ prev.size = 0 /\ prev.ret = 5
  /\ call.size = 5 /\ call.ret = 5 /\ Len(call.out) = 5

IsGet == call.op = "get_xattr"

Matches(off, i, name) == KeyLen(off, i) = Len(name) /\ Key(off, i) = name

\* C7: over a table whose names can be read, the result for the first entry
\* whose name is the query: the value's length with capacity 0; E2BIG and
\* nothing written with 0 < capacity < value_length + 1; otherwise the value's
\* cells copied (when the value lies inside the blob) and the name's length
\* returned.  With no such entry, or a query longer than the ceiling, 0.
C7_GetXattrResult ==
  (IsGet /\ ValidXattrs(call.off, call.len) /\ StoreOk)
    => LET found == {i \in 0 .. XCount(call.len) - 1 : Matches(call.off, i, call.name)}
       IN IF Len(call.name) > XATTR_NAME_MAX \/ found = {}
          THEN call.ret = 0
          ELSE LET m == CHOOSE i \in found : \A j \in found : i <= j
                   vlen == ValLen(call.off, m)
                   voff == ValOff(call.off, m)
               IN /\ call.size = 0 => call.ret = vlen
                  /\ (0 < call.size /\ call.size < vlen + 1) =>
                       (call.ret = E2BIG /\ call.out = << >>)
                  /\ (call.size >= vlen + 1 /\ ValidRegion(voff, vlen)) =>
                       (call.ret = Len(call.name)
                          /\ call.out = Cells(HeaderSize + voff, vlen))

\* The result of C7 holds when value_length + 1 does not wrap to 0.
GetXattrResultNoWrap ==
  (IsGet /\ ValidXattrs(call.off, call.len) /\ StoreOk)
    => LET found == {i \in 0 .. XCount(call.len) - 1 : Matches(call.off, i, call.name)}
       IN IF Len(call.name) > XATTR_NAME_MAX \/ found = {}
          THEN call.ret = 0
          ELSE LET m == CHOOSE i \in found : \A j \in found : i <= j
                   vlen == ValLen(call.off, m)
                   voff == ValOff(call.off, m)
               IN vlen + 1 < W =>
                    /\ call.size = 0 => call.ret = vlen
                    /\ (0 < call.size /\ call.size < vlen + 1) =>
                         (call.ret = E2BIG /\ call.out = << >>)
                    /\ (call.size >= vlen + 1 /\ ValidRegion(voff, vlen)) =>
                         (call.ret = Len(call.name)
                            /\ call.out = Cells(HeaderSize + voff, vlen))

\* The in-memory build rejects what does not fit, validates the header and
\* never writes past a destination.
MemoryBuildIsChecked ==
  build = "FUZZING" => (C1_OutOfBoundsRejected /\ C8_ContextImpliesValidHeader /\ ~call.over)

\* C10: no copy writes more cells than its destination holds.
C10_NoOverrun == ~call.over

====
